---- MODULE Spec2Model ----
(***************************************************************************)
(* A model of the aryn-sdk client core: credential / base-URL resolution   *)
(* (client/config.py), the error classifier and the request helpers        *)
(* (client/client.py), the lazy pagination traversal built by the list     *)
(* calls, and the asynchronous task operations (submit, poll, cancel).     *)
(***************************************************************************)
EXTENDS Integers, Sequences, FiniteSets, TLC

VARIABLES
    env,      \* the process environment: os.environ and the config file
    client,   \* the Client object: unbuilt, ready, or failed in __init__
    listing,  \* the server's listing: a sequence of pages
    engine,   \* the PaginatedResponse returned by the last list call
    lastOp,   \* the last operation: requests sent, response, outcome
    prevPoll  \* history: how the poll before the last one ended, when the
              \* last two operations polled the same task

vars == <<env, client, listing, engine, lastOp, prevPoll>>

\* Python's None, for the optional strings of the code.
None == "None"

(***************************************************************************)
(* client/config.py                                                        *)
(***************************************************************************)

_ARYN_API_KEY_ENV_VAR == "ARYN_API_KEY"
_ARYN_URL_ENV_VAR == "ARYN_API_URL"
_DEFAULT_ARYN_URL == "https://api.aryn.ai"

\* What yaml.safe_load returns for the config file: None for an empty file,
\* otherwise a mapping that holds any subset of the two keys.
YamlNone == [kind |-> "None"]
YamlDict(m) == [kind |-> "dict", m |-> m]
ConfigData ==
    {YamlNone} \cup
    {YamlDict(m) : m \in
        {[k \in ks |-> IF k = "aryn_token" THEN "key-file" ELSE "https://file"] :
            ks \in SUBSET {"aryn_token", "aryn_url"}}}

\* The file at _DEFAULT_PATH: absent, or present with its parsed content.
NoFile == [exists |-> FALSE]
ConfigFiles == {NoFile} \cup {[exists |-> TRUE, data |-> d] : d \in ConfigData}

\* Values of an environment variable: unset, set to "", set to a value.
EnvKeyValues == {None, "", "key-env"}
EnvUrlValues == {None, "", "https://env"}

Environments ==
    {[environ |-> [k \in {_ARYN_API_KEY_ENV_VAR, _ARYN_URL_ENV_VAR} |->
                    IF k = _ARYN_API_KEY_ENV_VAR THEN ek ELSE eu],
      file |-> f] :
        ek \in EnvKeyValues, eu \in EnvUrlValues, f \in ConfigFiles}

\* os.getenv(name): the value, or None when the variable is unset.
getenv(e, name) == e.environ[name]

\* Python truthiness of an optional string (the walrus tests of config.py).
Truthy(s) == s # None /\ s # ""

\* ArynConfig(aryn_api_key=..., aryn_url=...): the three private fields.
ArynConfig(aryn_api_key, aryn_url) ==
    [_aryn_api_key |-> aryn_api_key, _aryn_url |-> aryn_url]

Returned(v) == [ok |-> TRUE, value |-> v]
Raised(kind) == [ok |-> FALSE, error |-> kind]

\* A resolver that forgets the explicit parameter's priority over the
\* environment variable.
api_key_EnvFirst(cfg, e) ==
    IF Truthy(getenv(e, _ARYN_API_KEY_ENV_VAR))
    THEN Returned(getenv(e, _ARYN_API_KEY_ENV_VAR))
    ELSE IF cfg._aryn_api_key # None THEN Returned(cfg._aryn_api_key)
    ELSE IF e.file.exists
         THEN IF e.file.data.kind = "None" THEN Raised("TypeError")
              ELSE IF "aryn_token" \in DOMAIN e.file.data.m
                   THEN Returned(e.file.data.m["aryn_token"])
                   ELSE Raised("ValueError")
         ELSE Raised("ValueError")

\* ArynConfig.api_key.  `"aryn_token" in data` raises TypeError when the file
\* is empty (data is None).
api_key(cfg, e) ==
    IF cfg._aryn_api_key # None THEN Returned(cfg._aryn_api_key)
    ELSE IF Truthy(getenv(e, _ARYN_API_KEY_ENV_VAR))
         THEN Returned(getenv(e, _ARYN_API_KEY_ENV_VAR))
    ELSE IF e.file.exists
         THEN IF e.file.data.kind = "None" THEN Raised("TypeError")
              ELSE IF "aryn_token" \in DOMAIN e.file.data.m
                   THEN Returned(e.file.data.m["aryn_token"])
                   ELSE Raised("ValueError")
         ELSE Raised("ValueError")

\* ArynConfig.aryn_url.  The default is the `else` of the if/elif chain, so
\* it is taken only when the config file does not exist; a file without an
\* "aryn_url" key leaves url = None and the method raises ValueError.
aryn_url(cfg, e) ==
    IF cfg._aryn_url # None THEN Returned(cfg._aryn_url)
    ELSE IF Truthy(getenv(e, _ARYN_URL_ENV_VAR))
         THEN Returned(getenv(e, _ARYN_URL_ENV_VAR))
    ELSE IF e.file.exists
         THEN IF e.file.data.kind = "None" THEN Raised("TypeError")
              ELSE IF "aryn_url" \in DOMAIN e.file.data.m
                   THEN Returned(e.file.data.m["aryn_url"])
                   ELSE Raised("ValueError")
         ELSE Returned(_DEFAULT_ARYN_URL)

\* The caller's aryn_url argument: left out, passed as None, or a URL.
Omitted == "<omitted>"
UrlArgs == {Omitted, None, "https://param"}
KeyArgs == {None, "key-param"}

\* Client.__init__: the signature's default replaces an omitted aryn_url
\* before ArynConfig sees it; api_key() is evaluated (for the Authorization
\* header) before aryn_url() (for base_url), and either may raise.
__init__(url_arg, aryn_api_key, e) ==
    LET url    == IF url_arg = Omitted THEN "https://api.aryn.ai" ELSE url_arg
        config == ArynConfig(aryn_api_key, url)
        key    == api_key(config, e)
        base   == aryn_url(config, e)
    IN  IF ~key.ok
        THEN [state |-> "failed", error |-> key.error, raised_by |-> "api_key",
              url_arg |-> url_arg, key_arg |-> aryn_api_key]
        ELSE IF ~base.ok
        THEN [state |-> "failed", error |-> base.error, raised_by |-> "aryn_url",
              url_arg |-> url_arg, key_arg |-> aryn_api_key]
        ELSE [state |-> "ready", base_url |-> base.value,
              Authorization |-> "Bearer " \o key.value, api_key |-> key.value,
              url_arg |-> url_arg, key_arg |-> aryn_api_key]

Unbuilt == [state |-> "unbuilt"]

(***************************************************************************)
(* The transport and the server.  A response is what client.send returns:  *)
(* a status code, the Content-Type header (None when the header is         *)
(* absent) and a body.                                                     *)
(***************************************************************************)

MaxPages == 3
MaxItems == 2

Statuses == {200, 202, 299, 300, 404}

HttpResponse(status, ctype, body) ==
    [status_code |-> status, content_type |-> ctype, body |-> body]

\* A body is the bytes on the wire: the text of a JSON document, or bytes
\* that are no JSON.  res.json() parses the former into its value and raises
\* on the latter; res.content is the body as it is.
JsonText(v) == [json_text_of |-> v]
Bytes(s) == [bytes |-> s]
json(body) ==
    IF "json_text_of" \in DOMAIN body THEN Returned(body.json_text_of)
    ELSE Raised("JSONDecodeError")

ResultBodies == {JsonText([x |-> 1]), JsonText([x |-> 2]), Bytes("%PDF")}
ErrorBody == JsonText([detail |-> "error"])
TaskBody == JsonText([task_id |-> "T1"])

\* Content-Type header values a server may send, and str.lower() on them.
ContentTypes ==
    {None, "application/json", "Application/JSON",
     "application/json; charset=utf-8", "text/plain"}
lower(s) == IF s = "Application/JSON" THEN "application/json" ELSE s

\* The continuation token the server issues for page k (k >= 2).
Token(k) == "t" \o ToString(k)

\* The listings: MaxItems or fewer items, numbered in server order, spread
\* in every way over MaxPages or fewer pages (empty pages included).  Every
\* page but the last carries the token of the next page.
RECURSIVE SumTo(_, _)
SumTo(sizes, k) == IF k = 0 THEN 0 ELSE sizes[k] + SumTo(sizes, k - 1)

PageBody(items, next) == [items |-> items, next_page_token |-> next]

ListingOf(sizes) ==
    [k \in 1..Len(sizes) |->
        PageBody([i \in 1..sizes[k] |-> SumTo(sizes, k - 1) + i],
                 IF k < Len(sizes) THEN Token(k + 1) ELSE None)]

Listings ==
    {ListingOf(sizes) : sizes \in
        {sz \in UNION {[1..p -> 0..MaxItems] : p \in 1..MaxPages} :
            SumTo(sz, Len(sz)) <= MaxItems}}

\* client.build_request(method, path, params=..., headers=...).  A params
\* dict is a function from its keys to their values; `params or None` of
\* the list calls turns the empty dict into None, and both are the empty
\* function here.
build_request(method, path, params, headers) ==
    [method |-> method, path |-> path, params |-> params, headers |-> headers]

\* dict.get(key), with None for a missing key.
Get(d, key) == IF key \in DOMAIN d THEN d[key] ELSE None

\* The page a list request addresses: page 1 without a page_token, page k
\* for Token(k), 0 for a token the server never issued.
PageIndex(pages, req) ==
    LET tok == Get(req.params, "page_token")
    IN  IF tok = None THEN 1
        ELSE IF \E k \in 2..Len(pages) : Token(k) = tok
             THEN CHOOSE k \in 2..Len(pages) : Token(k) = tok
             ELSE 0

ErrorResponses ==
    {HttpResponse(s, "application/json", ErrorBody) :
        s \in {s \in Statuses : s >= 300}}

\* What the server may answer to a list request: the addressed page with
\* status 200, or an error.
ListResponses(pages, req) ==
    ErrorResponses \cup
    (IF PageIndex(pages, req) = 0 THEN {}
     ELSE {HttpResponse(200, "application/json",
                        JsonText(pages[PageIndex(pages, req)]))})

\* What the server may answer to a single-object request.
ObjectResponses ==
    {HttpResponse(s, "application/json", b) :
        s \in Statuses, b \in {JsonText([x |-> 1]), Bytes("<html>")}}

\* What the server may answer to a task submission.
SubmitResponses ==
    {HttpResponse(s, "application/json", b) :
        s \in Statuses, b \in {TaskBody, JsonText([x |-> 1])}}

\* What the server may answer to a poll: at 200 any Content-Type and body.
PollResponses ==
    {HttpResponse(200, ct, b) : ct \in ContentTypes, b \in ResultBodies}
    \cup {HttpResponse(s, "application/json", ErrorBody) :
            s \in Statuses \ {200}}

\* What the server may answer to a cancel.
CancelResponses ==
    {HttpResponse(s, "application/json", ErrorBody) : s \in Statuses}

(***************************************************************************)
(* client/client.py: the error classifier and the request helpers.  Each   *)
(* operator takes the response client.send returned and gives the          *)
(* operation's outcome: a raised exception or a returned value.            *)
(***************************************************************************)

Raise(exc) == [kind |-> "raise", exc |-> exc]
Return(v) == [kind |-> "return", value |-> v]

ArynSDKException(res) == [type |-> "ArynSDKException", response |-> res]
PyError(name) == [type |-> name]

\* Response(raw_response=..., value=...) and SimpleResponse(raw_response).
Response(raw_response, value) ==
    [type |-> "Response", raw_response |-> raw_response, value |-> value]
SimpleResponse(raw_response) ==
    [type |-> "SimpleResponse", raw_response |-> raw_response]

\* response_type(**fields): the decoded value of a response type.
Decoded(response_type, fields) == [type |-> response_type, fields |-> fields]

\* A classifier that lets the redirect boundary through.
_make_raw_request_OffByOne(res) ==
    IF res.status_code > 300 THEN Raise(ArynSDKException(res)) ELSE Return(res)

\* Client._make_raw_request, after res = self.client.send(req).
_make_raw_request(res) ==
    IF res.status_code >= 300 THEN Raise(ArynSDKException(res)) ELSE Return(res)

\* Client._make_request.
_make_request(res, response_type) ==
    LET r == _make_raw_request(res)
    IN  IF r.kind = "raise" THEN r
        ELSE IF ~json(r.value.body).ok THEN Raise(PyError(json(r.value.body).error))
        ELSE Return(Response(r.value, Decoded(response_type, json(r.value.body).value)))

\* PaginatedResponse(client=..., first_response=..., ...): the fields the
\* constructor is given, and the cursor of a traversal not yet started.
PaginatedResponse(first_response, response_type, list_key, request_args, request_kwargs) ==
    [type |-> "PaginatedResponse",
     state |-> "active",
     curr_response |-> first_response,
     response_type |-> response_type,
     list_key |-> list_key,
     request_args |-> request_args,
     request_kwargs |-> request_kwargs,
     pos |-> 0,
     yielded |-> <<>>,
     fetches |-> 0,
     error |-> PyError("none")]

\* A helper that forgets to hand the request's keyword arguments on.
_make_paginated_request_NoKwargs(res, responseType, list_key, request_args, request_kwargs) ==
    LET r == _make_raw_request(res)
    IN  IF r.kind = "raise" THEN r
        ELSE Return(PaginatedResponse(r.value, responseType, list_key, request_args,
                                      [params |-> <<>>, headers |-> None]))

\* Client._make_paginated_request.
_make_paginated_request(res, responseType, list_key, request_args, request_kwargs) ==
    LET r == _make_raw_request(res)
    IN  IF r.kind = "raise" THEN r
        ELSE Return(PaginatedResponse(r.value, responseType, list_key,
                                      request_args, request_kwargs))

\* The dict the list calls build: a key for every argument that is not None.
DictOf(d) == [k \in {k \in DOMAIN d : d[k] # None} |-> d[k]]

\* build_request(*args, **kwargs) of the list calls.
Replay(request_args, request_kwargs) ==
    build_request(request_args[1], request_args[2],
                  request_kwargs.params, request_kwargs.headers)

\* Client.list_docsets up to the send: args, kwargs and the request.
list_docsets_call(name_eq, page_size, page_token, extra_headers) ==
    LET params == DictOf([name_eq |-> name_eq, page_size |-> page_size,
                          page_token |-> page_token])
        args   == <<"GET", "/v1/storage/docsets">>
        kwargs == [params |-> params, headers |-> extra_headers]
    IN  [args |-> args, kwargs |-> kwargs, req |-> Replay(args, kwargs),
         response_type |-> "DocSetMetadata", list_key |-> "items"]

\* A list call that names the wrong key of the response body.
list_docs_call_WrongKey(docset_id, page_size, page_token, extra_headers) ==
    LET page_param == DictOf([page_size |-> page_size, page_token |-> page_token])
        args   == <<"GET", "/v1/storage/docsets/" \o docset_id \o "/docs">>
        kwargs == [params |-> page_param, headers |-> extra_headers]
    IN  [args |-> args, kwargs |-> kwargs, req |-> Replay(args, kwargs),
         response_type |-> "DocumentMetadata", list_key |-> "docs"]

\* Client.list_docs up to the send.
list_docs_call(docset_id, page_size, page_token, extra_headers) ==
    LET page_param == DictOf([page_size |-> page_size, page_token |-> page_token])
        args   == <<"GET", "/v1/storage/docsets/" \o docset_id \o "/docs">>
        kwargs == [params |-> page_param, headers |-> extra_headers]
    IN  [args |-> args, kwargs |-> kwargs, req |-> Replay(args, kwargs),
         response_type |-> "DocumentMetadata", list_key |-> "items"]

(***************************************************************************)
(* The traversal of a PaginatedResponse: yield the items of the held page  *)
(* in order; when the page is exhausted, fetch the next page with its      *)
(* continuation token, or end when it carries none.                        *)
(***************************************************************************)

NoEngine == [state |-> "none"]

\* The held page: curr_response.json().
HeldPage(e) == json(e.curr_response.body).value
CanRead(e) == e.list_key \in DOMAIN HeldPage(e)
HeldItems(e) == HeldPage(e)[e.list_key]
HeldToken(e) == Get(HeldPage(e), "next_page_token")

\* The next step yields an item (or fails reading the item list).
HasItem(e) == e.state = "active" /\ (~CanRead(e) \/ e.pos < Len(HeldItems(e)))
\* The held page is exhausted.
Exhausted(e) == e.state = "active" /\ CanRead(e) /\ e.pos = Len(HeldItems(e))

\* One item: the next raw item of the held page, decoded.
YieldItem(e) ==
    IF ~CanRead(e)
    THEN [e EXCEPT !.state = "failed", !.error = PyError("KeyError")]
    ELSE [e EXCEPT !.pos = @ + 1,
                   !.yielded = Append(@, Decoded(e.response_type,
                                                 HeldItems(e)[e.pos + 1]))]

\* A traversal that asks for the next page although none was announced.
WantsNextPage_Always(e) == Exhausted(e)

\* The held page is exhausted and carries a continuation token.
WantsNextPage(e) == Exhausted(e) /\ HeldToken(e) # None

\* The held page is exhausted and carries no continuation token.
AtEnd(e) == Exhausted(e) /\ HeldToken(e) = None

\* The request for the next page: the descriptor replayed with page_token
\* set to the held page's token, everything else as in the list call.
NextPageRequest(e) ==
    Replay(e.request_args,
           [e.request_kwargs EXCEPT
               !.params = ("page_token" :> HeldToken(e)) @@ @])

\* The traversal after the response to the next-page request.
ReceivePage(e, res) ==
    LET r == _make_raw_request(res)
    IN  IF r.kind = "raise"
        THEN [e EXCEPT !.state = "failed", !.error = r.exc, !.fetches = @ + 1]
        ELSE [e EXCEPT !.curr_response = r.value, !.pos = 0, !.fetches = @ + 1]

(***************************************************************************)
(* client/client.py: the asynchronous task operations.                     *)
(***************************************************************************)

\* A task argument is an AsyncTask handle or a bare task-id string.
AsyncTask(task_id, method, path, response_type) ==
    [kind |-> "AsyncTask", task_id |-> task_id, method |-> method,
     path |-> path, response_type |-> response_type]
Str(s) == [kind |-> "str", value |-> s]

TaskIds == {"T1", "T2"}
TaskArgs ==
    {AsyncTask("T1", "POST", "/jobs/extract-properties", "TransformResponse"),
     AsyncTask("T2", None, None, "TransformResponse")}
    \cup {Str(t) : t \in TaskIds}

\* A filter derivation that takes the path filter from the method.
_get_task_and_filters_Swapped(task) ==
    IF task.kind = "AsyncTask"
    THEN <<task.task_id, task.method, task.method>>
    ELSE <<task.value, None, None>>

\* Client._get_task_and_filters: (task_id, method_filter, path_filter).
_get_task_and_filters(task) ==
    IF task.kind = "AsyncTask"
    THEN <<task.task_id,
           IF task.method # None THEN task.method ELSE None,
           IF task.path # None THEN task.path ELSE None>>
    ELSE <<task.value, None, None>>

\* cancel_async_task up to the send: the request it builds.
cancel_request(task) ==
    LET f == _get_task_and_filters(task)
    IN  build_request("POST", "/v1/async/cancel/" \o f[1],
                      [method_filter |-> f[2], path_filter |-> f[3]], None)

\* Client.cancel_async_task, after the send.
cancel_async_task(res) ==
    LET r == _make_raw_request(res)
    IN  IF r.kind = "raise" THEN r ELSE Return(SimpleResponse(r.value))

\* _get_async_result_internal up to the send: the request it builds.
result_request(task) ==
    LET f == _get_task_and_filters(task)
    IN  build_request("GET", "/v1/async/result/" \o f[1],
                      [method_filter |-> f[2], path_filter |-> f[3]], None)

\* Client._get_async_result_internal, after the send.
_get_async_result_internal(res) == _make_raw_request(res)

\* A poll that takes every success other than 200 for "still running".
get_async_result_LaxPending(res) ==
    LET r == _get_async_result_internal(res)
    IN  IF r.kind = "raise" THEN r
        ELSE IF r.value.status_code = 200
        THEN IF r.value.content_type = None THEN Raise(PyError("AttributeError"))
             ELSE IF lower(r.value.content_type) = "application/json"
             THEN IF json(r.value.body).ok
                  THEN Return(Response(r.value, json(r.value.body).value))
                  ELSE Raise(PyError(json(r.value.body).error))
             ELSE Return(Response(r.value, r.value.body))
        ELSE Return(SimpleResponse(r.value))

\* Client.get_async_result.  headers.get("Content-Type") is None when the
\* header is absent, and None.lower() raises AttributeError; the header is
\* compared, lowercased, with the exact string "application/json".
get_async_result(res) ==
    LET r == _get_async_result_internal(res)
    IN  IF r.kind = "raise" THEN r
        ELSE IF r.value.status_code = 200
        THEN IF r.value.content_type = None THEN Raise(PyError("AttributeError"))
             ELSE IF lower(r.value.content_type) = "application/json"
             THEN IF json(r.value.body).ok
                  THEN Return(Response(r.value, json(r.value.body).value))
                  ELSE Raise(PyError(json(r.value.body).error))
             ELSE Return(Response(r.value, r.value.body))
        ELSE IF r.value.status_code = 202
        THEN Return(SimpleResponse(r.value))
        ELSE Raise(ArynSDKException(r.value))

\* The request of a submission.  The JSON body (the schema) is left out.
submit_request(path, docset_id) ==
    build_request("POST", path, [docset_id |-> docset_id], None)

\* res.json()["task_id"] of the submissions, then the handle.
TaskFrom(res, path) ==
    LET r == _make_raw_request(res)
    IN  IF r.kind = "raise" THEN r
        ELSE IF ~json(r.value.body).ok THEN Raise(PyError(json(r.value.body).error))
        ELSE IF "task_id" \notin DOMAIN json(r.value.body).value
        THEN Raise(PyError("KeyError"))
        ELSE Return(AsyncTask(json(r.value.body).value["task_id"], "POST", path,
                              "TransformResponse"))

\* Client.extract_properties_async, after the send.
extract_properties_async(res) == TaskFrom(res, "/jobs/extract-properties")

\* Client.delete_properties_async, after the send.
delete_properties_async(res) == TaskFrom(res, "/jobs/delete-properties")

(***************************************************************************)
(* The state machine.  Every operation is one blocking round trip: the     *)
(* request is built, the server answers, the outcome is computed.          *)
(***************************************************************************)

NoOp == [op |-> "none"]
NoPrev == "none"

\* How an outcome ended: "raise", or the type of the value returned.
Ending(outcome) ==
    IF outcome.kind = "raise" THEN "raise" ELSE outcome.value.type

\* The history kept when a task is polled twice in a row: how the earlier
\* poll ended.
PrevOf(op, task) ==
    IF /\ op = "get_async_result"
       /\ lastOp.op = "get_async_result"
       /\ _get_task_and_filters(lastOp.task)[1] = _get_task_and_filters(task)[1]
    THEN Ending(lastOp.outcome)
    ELSE NoPrev

\* Record an operation: the requests it sent, the response, the outcome.
Record(op, task, req, res, outcome) ==
    /\ lastOp' = [op |-> op, task |-> task, requests |-> <<req>>,
                  res |-> res, outcome |-> outcome]
    /\ prevPoll' = PrevOf(op, task)

\* The arguments the list calls are made with.
ListDocsetsArgs ==
    {[name_eq |-> None, page_size |-> None, page_token |-> None, extra_headers |-> None],
     [name_eq |-> "n1", page_size |-> "2", page_token |-> None, extra_headers |-> "h1"],
     [name_eq |-> None, page_size |-> None, page_token |-> Token(2), extra_headers |-> None]}
ListDocsArgs ==
    {[docset_id |-> "d1", page_size |-> None, page_token |-> None, extra_headers |-> "h1"],
     [docset_id |-> "d2", page_size |-> "2", page_token |-> None, extra_headers |-> None]}

\* The environment of a process with neither variable set and no file.
BareEnv ==
    [environ |-> [k \in {_ARYN_API_KEY_ENV_VAR, _ARYN_URL_ENV_VAR} |-> None],
     file |-> NoFile]

\* The listing of two pages, [1, 2] then [3].
ExampleListing == ListingOf(<<2, 1>>)

\* A client built with an explicit key, and any listing on the server.
Init ==
    /\ env = BareEnv
    /\ client = __init__(Omitted, "key-param", BareEnv)
    /\ listing \in Listings
    /\ engine = NoEngine
    /\ lastOp = NoOp
    /\ prevPoll = NoPrev

\* The same client, and the two-page listing on the server.
InitTasks ==
    /\ env = BareEnv
    /\ client = __init__(Omitted, "key-param", BareEnv)
    /\ listing = ExampleListing
    /\ engine = NoEngine
    /\ lastOp = NoOp
    /\ prevPoll = NoPrev

\* No client yet, in any environment.
InitConfig ==
    /\ env \in Environments
    /\ client = Unbuilt
    /\ listing = ExampleListing
    /\ engine = NoEngine
    /\ lastOp = NoOp
    /\ prevPoll = NoPrev

\* Client(aryn_url=..., aryn_api_key=...).
NewClient ==
    /\ client.state = "unbuilt"
    /\ \E u \in UrlArgs, k \in KeyArgs : client' = __init__(u, k, env)
    /\ UNCHANGED <<env, listing, engine, lastOp, prevPoll>>

\* The traversal a list call starts, with the request the call sent.
Started(call, outcome) ==
    IF outcome.kind = "return"
    THEN [first_request |-> call.req] @@ outcome.value
    ELSE engine

ListDocsets ==
    /\ client.state = "ready"
    /\ \E a \in ListDocsetsArgs :
        LET call == list_docsets_call(a.name_eq, a.page_size, a.page_token,
                                      a.extra_headers)
        IN  \E res \in ListResponses(listing, call.req) :
                LET outcome == _make_paginated_request(res, call.response_type,
                                   call.list_key, call.args, call.kwargs)
                IN  /\ engine' = Started(call, outcome)
                    /\ Record("list_docsets", None, call.req, res, outcome)
    /\ UNCHANGED <<env, client, listing>>

ListDocs ==
    /\ client.state = "ready"
    /\ \E a \in ListDocsArgs :
        LET call == list_docs_call(a.docset_id, a.page_size, a.page_token,
                                   a.extra_headers)
        IN  \E res \in ListResponses(listing, call.req) :
                LET outcome == _make_paginated_request(res, call.response_type,
                                   call.list_key, call.args, call.kwargs)
                IN  /\ engine' = Started(call, outcome)
                    /\ Record("list_docs", None, call.req, res, outcome)
    /\ UNCHANGED <<env, client, listing>>

\* The traversal yields its next item.
NextItem ==
    /\ client.state = "ready"
    /\ engine.state = "active"
    /\ HasItem(engine)
    /\ engine' = YieldItem(engine)
    /\ UNCHANGED <<env, client, listing, lastOp, prevPoll>>

\* The traversal fetches the next page.
NextPage ==
    /\ client.state = "ready"
    /\ engine.state = "active"
    /\ WantsNextPage(engine)
    /\ \E res \in ListResponses(listing, NextPageRequest(engine)) :
        /\ engine' = ReceivePage(engine, res)
        /\ Record("next_page", None, NextPageRequest(engine), res,
                  _make_raw_request(res))
    /\ UNCHANGED <<env, client, listing>>

\* The traversal ends.
EndOfSequence ==
    /\ client.state = "ready"
    /\ engine.state = "active"
    /\ AtEnd(engine)
    /\ engine' = [engine EXCEPT !.state = "done"]
    /\ UNCHANGED <<env, client, listing, lastOp, prevPoll>>

\* Client.get_docset.
GetDocset ==
    /\ client.state = "ready"
    /\ \E res \in ObjectResponses :
        Record("get_docset", None,
               build_request("GET", "/v1/storage/docsets/" \o "d1", <<>>, None),
               res, _make_request(res, "DocSetMetadata"))
    /\ UNCHANGED <<env, client, listing, engine>>

\* Client.list_async_tasks.
ListAsyncTasks ==
    /\ client.state = "ready"
    /\ \E res \in ObjectResponses :
        Record("list_async_tasks", None,
               build_request("GET", "/v1/async/list", <<>>, None),
               res, _make_request(res, "AsyncTaskMap"))
    /\ UNCHANGED <<env, client, listing, engine>>

ExtractPropertiesAsync ==
    /\ client.state = "ready"
    /\ \E res \in SubmitResponses :
        Record("extract_properties_async", None,
               submit_request("/v1/async/submit/jobs/extract-properties", "d1"),
               res, extract_properties_async(res))
    /\ UNCHANGED <<env, client, listing, engine>>

DeletePropertiesAsync ==
    /\ client.state = "ready"
    /\ \E res \in SubmitResponses :
        Record("delete_properties_async", None,
               submit_request("/v1/async/submit/jobs/delete-properties", "d1"),
               res, delete_properties_async(res))
    /\ UNCHANGED <<env, client, listing, engine>>

GetAsyncResult ==
    /\ client.state = "ready"
    /\ \E task \in TaskArgs, res \in PollResponses :
        Record("get_async_result", task, result_request(task), res,
               get_async_result(res))
    /\ UNCHANGED <<env, client, listing, engine>>

CancelAsyncTask ==
    /\ client.state = "ready"
    /\ \E task \in TaskArgs, res \in CancelResponses :
        Record("cancel_async_task", task, cancel_request(task), res,
               cancel_async_task(res))
    /\ UNCHANGED <<env, client, listing, engine>>

\* Listing and traversal, and a single-object request.
Next ==
    \/ ListDocsets
    \/ ListDocs
    \/ NextItem
    \/ NextPage
    \/ EndOfSequence
    \/ GetDocset

Spec == Init /\ [][Next]_vars

\* The task operations.
NextTasks ==
    \/ ListAsyncTasks
    \/ ExtractPropertiesAsync
    \/ DeletePropertiesAsync
    \/ GetAsyncResult
    \/ CancelAsyncTask

SpecTasks == InitTasks /\ [][NextTasks]_vars

\* Every operation of the client.
NextAll ==
    \/ ListDocsets
    \/ ListDocs
    \/ NextItem
    \/ NextPage
    \/ EndOfSequence
    \/ GetDocset
    \/ ListAsyncTasks
    \/ ExtractPropertiesAsync
    \/ DeletePropertiesAsync
    \/ GetAsyncResult
    \/ CancelAsyncTask

SpecAll == InitTasks /\ [][NextAll]_vars

\* Construction, then a first request.
NextConfig ==
    \/ NewClient
    \/ ListAsyncTasks

SpecConfig == InitConfig /\ [][NextConfig]_vars

(***************************************************************************)
(* Configuration claims, verified under SpecConfig.                        *)
(***************************************************************************)

\* Which sources supply an API key: the explicit parameter when it is not
\* None, the environment variable when it is set and not empty, the config
\* file when it exists and holds an "aryn_token".
FileHas(e, key) ==
    /\ e.file.exists
    /\ e.file.data.kind = "dict"
    /\ key \in DOMAIN e.file.data.m
KeySupplied ==
    \/ client.key_arg # None
    \/ Truthy(getenv(env, _ARYN_API_KEY_ENV_VAR))
    \/ FileHas(env, "aryn_token")
FirstKey ==
    IF client.key_arg # None THEN client.key_arg
    ELSE IF Truthy(getenv(env, _ARYN_API_KEY_ENV_VAR))
         THEN getenv(env, _ARYN_API_KEY_ENV_VAR)
         ELSE env.file.data.m["aryn_token"]

UrlParamGiven == client.url_arg # Omitted /\ client.url_arg # None
ExpectedUrl ==
    IF UrlParamGiven THEN client.url_arg
    ELSE IF Truthy(getenv(env, _ARYN_URL_ENV_VAR))
         THEN getenv(env, _ARYN_URL_ENV_VAR)
    ELSE IF FileHas(env, "aryn_url") THEN env.file.data.m["aryn_url"]
    ELSE _DEFAULT_ARYN_URL

\* C8: the base URL is that of the first source that supplies one, in the
\* order parameter, environment variable, config file, and the public
\* endpoint when none does; so the URL resolution never fails construction
\* (stated for a config file that, when present, holds a mapping).
C8_BaseUrlResolution ==
    (env.file.exists => env.file.data.kind = "dict") =>
        /\ client.state = "ready" => client.base_url = ExpectedUrl
        /\ client.state = "failed" => client.raised_by # "aryn_url"

(***************************************************************************)
(* Task claims, verified under SpecTasks.                                  *)
(***************************************************************************)

\* The three task outcomes, read off what a poll returned for response res.
IsPending(o, res) ==
    o.kind = "return" /\ o.value = SimpleResponse(res)
IsReady(o, res) ==
    o.kind = "return" /\ json(res.body).ok
    /\ o.value = Response(res, json(res.body).value)
IsReadyRaw(o, res) ==
    o.kind = "return" /\ o.value = Response(res, res.body)

\* The media type a Content-Type header names: its parameters dropped,
\* case ignored.  A header names JSON when that is application/json.
MediaType(ct) ==
    IF ct \in {"Application/JSON", "application/json; charset=utf-8"}
    THEN "application/json" ELSE ct
IsJsonContentType(ct) == ct # None /\ MediaType(ct) = "application/json"

PolledLast == lastOp.op = "get_async_result"

\* C1: a poll is Pending exactly when the status is 202, Ready exactly when
\* it is 200 with a JSON content type, ReadyRaw exactly when it is 200 with
\* any other content type, and raises exactly on any other status (a body
\* announced as JSON that does not parse is left aside).
C1_PollOutcomes ==
    (PolledLast /\ (IsJsonContentType(lastOp.res.content_type)
                        => json(lastOp.res.body).ok)) =>
        LET o == lastOp.outcome
            res == lastOp.res
        IN  /\ IsPending(o, res) <=> res.status_code = 202
            /\ IsReady(o, res) <=>
                (res.status_code = 200 /\ IsJsonContentType(res.content_type))
            /\ IsReadyRaw(o, res) <=>
                (res.status_code = 200 /\ ~IsJsonContentType(res.content_type))
            /\ o.kind = "raise" <=> res.status_code \notin {200, 202}

\* C6: a poll or cancel given a handle sends the handle's method and path
\* as method_filter and path_filter, given a bare task id it sends neither;
\* either way the request goes to the operation's fixed path followed by
\* the task id.
C6_TaskFilters ==
    lastOp.op \in {"get_async_result", "cancel_async_task"} =>
        LET req  == lastOp.requests[1]
            task == lastOp.task
            id   == IF task.kind = "AsyncTask" THEN task.task_id ELSE task.value
        IN  /\ DOMAIN req.params = {"method_filter", "path_filter"}
            /\ task.kind = "AsyncTask" =>
                /\ req.params["method_filter"] = task.method
                /\ req.params["path_filter"] = task.path
            /\ task.kind = "str" =>
                /\ req.params["method_filter"] = None
                /\ req.params["path_filter"] = None
            /\ lastOp.op = "get_async_result" =>
                req.method = "GET" /\ req.path = "/v1/async/result/" \o id
            /\ lastOp.op = "cancel_async_task" =>
                req.method = "POST" /\ req.path = "/v1/async/cancel/" \o id

\* A handle has been polled with its method and path as the filters.
C6_Witness ==
    /\ lastOp.op = "get_async_result"
    /\ lastOp.task.kind = "AsyncTask"
    /\ lastOp.requests[1].params["method_filter"] = "POST"
    /\ lastOp.requests[1].params["path_filter"] = "/jobs/extract-properties"
    /\ lastOp.requests[1].path = "/v1/async/result/T1"

\* C10: a poll or cancel sends one request and its outcome is that of the
\* response to it, whatever the poll before reported: Pending on 202,
\* Ready with the parsed body on 200 with Content-Type application/json,
\* an API error carrying the response on any status >= 300; a cancel
\* acknowledges any status below 300.
C10_FreshOutcome ==
    lastOp.op \in {"get_async_result", "cancel_async_task"} =>
        LET o == lastOp.outcome
            res == lastOp.res
        IN  /\ Len(lastOp.requests) = 1
            /\ res.status_code >= 300 =>
                o = Raise(ArynSDKException(res))
            /\ (PolledLast /\ res.status_code = 202) => IsPending(o, res)
            /\ (PolledLast /\ res.status_code \notin {200, 202}) =>
                o = Raise(ArynSDKException(res))
            /\ (PolledLast /\ res.status_code = 200
                    /\ res.content_type = "application/json"
                    /\ json(res.body).ok) => IsReady(o, res)
            /\ (lastOp.op = "cancel_async_task" /\ res.status_code < 300) =>
                o = Return(SimpleResponse(res))

\* A task was polled and was pending; polled again, it is ready with the
\* body of the second response.
C10_Witness ==
    /\ PolledLast
    /\ prevPoll = "SimpleResponse"
    /\ lastOp.res.status_code = 200
    /\ lastOp.outcome = Return(Response(lastOp.res, [x |-> 1]))

(***************************************************************************)
(* The error classifier, verified under SpecAll.                           *)
(***************************************************************************)

\* The raw response a returned value was built from.
RawOf(v) ==
    IF v.type \in {"Response", "SimpleResponse"} THEN v.raw_response
    ELSE v.curr_response

\* C3: whatever the operation, a response with status >= 300 makes it raise
\* an API error carrying that response, and a value is only ever returned
\* from, and holds unchanged, a response with status below 300.
C3_ErrorClassifier ==
    /\ lastOp.op # "none" =>
        /\ lastOp.res.status_code >= 300 =>
            lastOp.outcome = Raise(ArynSDKException(lastOp.res))
        /\ lastOp.outcome.kind = "return" =>
            /\ lastOp.res.status_code < 300
            /\ lastOp.op = "next_page" => lastOp.outcome.value = lastOp.res
            /\ lastOp.op \in {"list_docsets", "list_docs", "get_docset",
                              "list_async_tasks", "get_async_result",
                              "cancel_async_task"} =>
                RawOf(lastOp.outcome.value) = lastOp.res
    /\ engine.state \in {"active", "done"} =>
        engine.curr_response.status_code < 300

\* An intermediate page fetch was answered with an error and raised it.
C3_Witness ==
    /\ lastOp.op = "next_page"
    /\ lastOp.res.status_code >= 300
    /\ lastOp.outcome = Raise(ArynSDKException(lastOp.res))
    /\ engine.state = "failed"

(***************************************************************************)
(* Pagination claims, verified under Spec.                                 *)
(***************************************************************************)

\* The page the list call of traversal e addressed.
StartPage(e) == PageIndex(listing, e.first_request)

\* The raw items of pages a..b of the listing, in server order.
RECURSIVE ItemsOf(_, _, _)
ItemsOf(pages, a, b) ==
    IF a > b THEN <<>> ELSE ItemsOf(pages, a, b - 1) \o pages[b].items

DecodedSeq(response_type, items) ==
    [i \in 1..Len(items) |-> Decoded(response_type, items[i])]

\* What traversal e has to yield: every item from its first page on.
Expected(e) ==
    DecodedSeq(e.response_type, ItemsOf(listing, StartPage(e), Len(listing)))

IsPrefix(s, t) == Len(s) <= Len(t) /\ SubSeq(t, 1, Len(s)) = s

\* C2: a traversal that ends has yielded exactly the items of the listing,
\* in server order, however they are spread over the pages; what it has
\* yielded so far is always a prefix of them; and only an API error ever
\* fails a list call or a traversal (an empty page is no error).
C2_Materialize ==
    /\ engine.state # "none" =>
        /\ IsPrefix(engine.yielded, Expected(engine))
        /\ engine.state = "done" => engine.yielded = Expected(engine)
        /\ engine.state = "failed" => engine.error.type = "ArynSDKException"
    /\ (lastOp.op \in {"list_docsets", "list_docs"}
            /\ lastOp.res.status_code < 300) =>
        lastOp.outcome.kind = "return"

\* A traversal over several pages has ended with items of two pages.
C2_Witness ==
    /\ engine.state = "done"
    /\ StartPage(engine) = 1
    /\ Len(listing) = 3
    /\ Len(listing[1].items) = 1
    /\ Len(listing[3].items) = 1
    /\ Len(engine.yielded) = 2

\* C4: a traversal never fetches past the page that carries no token: the
\* continuation fetches never outnumber the pages from its first page on
\* that carry a token, and equal them when the traversal ends.
C4_ExactTermination ==
    engine.state # "none" =>
        /\ StartPage(engine) + engine.fetches <= Len(listing)
        /\ engine.state = "done" =>
            engine.fetches = Len(listing) - StartPage(engine)
        /\ (engine.state = "active" /\ Exhausted(engine)
                /\ HeldToken(engine) = None) => ~ENABLED NextPage

\* A two-page listing was traversed to its end with one continuation fetch.
C4_Witness ==
    /\ engine.state = "done"
    /\ Len(listing) = 2
    /\ StartPage(engine) = 1
    /\ engine.fetches = 1
    /\ Len(engine.yielded) = 2

\* C5: when the fetch of a later page is answered with an API error, the
\* traversal fails with that error, having yielded exactly the items of the
\* pages before it, and then takes no further step: no item, no retry, no
\* normal end.
C5_PageFailure ==
    /\ (lastOp.op = "next_page" /\ lastOp.res.status_code >= 300) =>
        /\ engine.state = "failed"
        /\ engine.error = ArynSDKException(lastOp.res)
    /\ engine.state = "failed" =>
        /\ engine.error.type = "ArynSDKException"
        /\ engine.error.response.status_code >= 300
        /\ engine.fetches >= 1
        /\ engine.yielded =
            DecodedSeq(engine.response_type,
                       ItemsOf(listing, StartPage(engine),
                               StartPage(engine) + engine.fetches - 1))
        /\ ~ENABLED (NextItem \/ NextPage \/ EndOfSequence)

\* The fetch of page 3 failed after the items of pages 1 and 2 were yielded.
C5_Witness ==
    /\ engine.state = "failed"
    /\ StartPage(engine) = 1
    /\ engine.fetches = 2
    /\ Len(engine.yielded) = 2
    /\ lastOp.op = "next_page"

\* C9: a page is fetched only when every item of the held page has been
\* yielded, with the token the held page carried, and the request is the
\* list call's own but for page_token: same method, path, headers and
\* other parameters.
C9_FetchOrder ==
    [][(engine.state = "active" /\ engine'.state # "none"
            /\ engine'.fetches = engine.fetches + 1) =>
        LET req   == lastOp'.requests[1]
            first == engine.first_request
        IN  /\ lastOp'.op = "next_page"
            /\ engine.pos = Len(HeldItems(engine))
            /\ engine.yielded =
                DecodedSeq(engine.response_type,
                           ItemsOf(listing, StartPage(engine),
                                   StartPage(engine) + engine.fetches))
            /\ HeldToken(engine) # None
            /\ Get(req.params, "page_token") = HeldToken(engine)
            /\ req.method = first.method
            /\ req.path = first.path
            /\ req.headers = first.headers
            /\ DOMAIN req.params \ {"page_token"} = DOMAIN first.params \ {"page_token"}
            /\ \A k \in DOMAIN first.params \ {"page_token"} :
                    req.params[k] = first.params[k]]_vars

\* The second page of a filtered listing was fetched with the first page's
\* token and the filter of the list call.
C9_Witness ==
    /\ lastOp.op = "next_page"
    /\ lastOp.outcome.kind = "return"
    /\ engine.state = "active"
    /\ engine.fetches = 1
    /\ lastOp.requests[1].params = [name_eq |-> "n1", page_size |-> "2",
                                    page_token |-> Token(2)]
    /\ lastOp.requests[1].headers = "h1"

====
